---- MODULE Spec2Model ----
(***************************************************************************)
(* noway: list the archived snapshots of a URL from the Wayback CDX index, *)
(* download them with bounded concurrency, record the failed ones.         *)
(*                                                                         *)
(* A string is a sequence of tokens; the tokens "/", ":", "?", "#", "_"    *)
(* and "\n" are the single characters the code splits on or replaces, any  *)
(* other token is a run of characters the code never looks into.           *)
(***************************************************************************)
EXTENDS Integers, Sequences, FiniteSets, TLC

\* ------------------------------------------------------------------ bounds
\* most data rows of an index response
MaxRows == 2
\* most cells of a row of an index response
MaxCols == 2
\* most cells of a row when the lister is called on its own
ListCols == 3
\* largest --concurrency value tried
MaxConcurrency == 2

\* ------------------------------------------------------------ JSON values
\* serde_json::Value: a string, or something else (null, number, ...)
Str(s) == [isStr |-> TRUE, s |-> s]
Null == [isStr |-> FALSE, s |-> <<>>]

\* the literal column names of the CDX header row
TimestampName == <<"timestamp">>
OriginalName == <<"original">>

\* the cells an index response may hold
HeaderCells == {Str(TimestampName), Str(OriginalName), Null}
DataCells == {Str(<<"1">>), Str(<<"a">>), Null}

\* all sequences over S of length 0..n
SeqsUpTo(S, n) == UNION {[1..k -> S] : k \in 0..n}

\* The index service's answers: the request fails, the body is no JSON
\* array of arrays, or it is an array of rows (the first is the header).
NetFail == [kind |-> "net_fail", data |-> <<>>]
BadJson == [kind |-> "bad_json", data |-> <<>>]
Consumed == [kind |-> "consumed", data |-> <<>>]
JsonRows(d) == [kind |-> "json", data |-> d]
Responses ==
  {NetFail, BadJson, JsonRows(<<>>)}
    \cup {JsonRows(<<h>> \o d) :
            h \in SeqsUpTo(HeaderCells, MaxCols),
            d \in SeqsUpTo(SeqsUpTo(DataCells, MaxCols), MaxRows)}

\* ------------------------------------------------------------ the lister
\* (mutant) the columns are taken at the places the index service usually
\* puts them: urlkey, timestamp, original
PositionFixed(headers, name) ==
  IF name = TimestampName
  THEN (IF Len(headers) >= 2 THEN 2 ELSE 0)
  ELSE (IF Len(headers) >= 3 THEN 3 ELSE 0)

\* (mutant) a column that is not found is taken to be the first one
PositionOrFirst(headers, name) ==
  IF \E k \in 1..Len(headers) : headers[k].isStr /\ headers[k].s = name
  THEN CHOOSE k \in 1..Len(headers) :
         /\ headers[k].isStr /\ headers[k].s = name
         /\ \A j \in 1..(k - 1) : ~(headers[j].isStr /\ headers[j].s = name)
  ELSE 1

\* headers.iter().position(|h| h.as_str() == Some(name)); 0 is None
Position(headers, name) ==
  IF \E k \in 1..Len(headers) : headers[k].isStr /\ headers[k].s = name
  THEN CHOOSE k \in 1..Len(headers) :
         /\ headers[k].isStr /\ headers[k].s = name
         /\ \A j \in 1..(k - 1) : ~(headers[j].isStr /\ headers[j].s = name)
  ELSE 0

\* format!("https://web.archive.org/web/{}/{}", timestamp, original_url)
ArchiveBase == <<"https", ":", "/", "/", "web.archive.org", "/", "web", "/">>
CaptureUrl(timestamp, original_url) ==
  ArchiveBase \o timestamp \o <<"/">> \o original_url

Ok(urls) == [kind |-> "ok", urls |-> urls, msg |-> ""]
Err(msg) == [kind |-> "err", urls |-> <<>>, msg |-> msg]
Panicked == [kind |-> "panic", urls |-> <<>>, msg |-> "index out of bounds"]

\* the loop over data.iter().skip(1): rows k..Len(data), acc the urls so far
RECURSIVE RowLoop(_, _, _, _, _)
RowLoop(data, k, timestamp_idx, original_url_idx, acc) ==
  IF k > Len(data) THEN Ok(acc)
  ELSE LET row == data[k] IN
    IF timestamp_idx > Len(row) THEN Panicked
    ELSE IF ~row[timestamp_idx].isStr THEN Err("Invalid timestamp")
    ELSE IF original_url_idx > Len(row) THEN Panicked
    ELSE IF ~row[original_url_idx].isStr THEN Err("Invalid URL")
    ELSE RowLoop(data, k + 1, timestamp_idx, original_url_idx,
                 Append(acc, CaptureUrl(row[timestamp_idx].s,
                                        row[original_url_idx].s)))

\* (mutant) the early return is taken for an empty array only
NoCapturesOnlyEmpty(data) == Len(data) = 0

\* whether the lister takes the early return of `data.len() <= 1`
NoCaptures(data) == Len(data) <= 1

get_wayback_cdx_urls(resp) ==
  IF resp.kind = "net_fail" THEN Err("Failed to fetch CDX API")
  ELSE IF resp.kind = "bad_json" THEN Err("Failed to parse CDX JSON")
  ELSE IF NoCaptures(resp.data) THEN Ok(<<>>)
  ELSE LET headers == resp.data[1]
           timestamp_idx == Position(headers, TimestampName)
           original_url_idx == Position(headers, OriginalName)
       IN IF timestamp_idx = 0 THEN Err("timestamp field not found")
          ELSE IF original_url_idx = 0 THEN Err("original field not found")
          ELSE RowLoop(resp.data, 2, timestamp_idx, original_url_idx, <<>>)


\* -------------------------------------------------- the persisted filename
\* the tokens of s before the first one in stops (all of s if there is none)
TakeUntil(s, stops) ==
  IF \E k \in 1..Len(s) : s[k] \in stops
  THEN SubSeq(s, 1, (CHOOSE k \in 1..Len(s) :
                       s[k] \in stops /\ \A j \in 1..(k - 1) : s[j] \notin stops) - 1)
  ELSE s

\* where "/web/" first starts in s; 0 if nowhere
WebMarker == <<"/", "web", "/">>
FindWeb(s) ==
  IF \E k \in 1..(Len(s) - 2) : SubSeq(s, k, k + 2) = WebMarker
  THEN CHOOSE k \in 1..(Len(s) - 2) :
         /\ SubSeq(s, k, k + 2) = WebMarker
         /\ \A j \in 1..(k - 1) : SubSeq(s, j, j + 2) # WebMarker
  ELSE 0

\* url.split("/web/").nth(1).and_then(|s| s.split('/').next())
\*    .unwrap_or("unknown"): what follows the first "/web/", up to the next
\* "/" (a second "/web/" starts with "/", so it never cuts earlier)
TimestampOf(url) ==
  IF FindWeb(url) = 0 THEN <<"unknown">>
  ELSE TakeUntil(SubSeq(url, FindWeb(url) + 3, Len(url)), {"/"})

\* Url::parse(url).path(): what follows scheme and host, up to "?" or "#"
PathOf(url) == TakeUntil(SubSeq(url, 6, Len(url)), {"?", "#"})

\* .replace(['/', ':'], "_")
Sanitize(path) ==
  [k \in 1..Len(path) |-> IF path[k] \in {"/", ":"} THEN "_" ELSE path[k]]

\* format!("{}_{}.html", timestamp, path)
FileName(url) == TimestampOf(url) \o <<"_">> \o Sanitize(PathOf(url)) \o <<".html">>

\* ----------------------------------------------------- the failure report
\* (mutant) the targets are joined with nothing between them
RECURSIVE JoinNoSeparator(_)
JoinNoSeparator(urls) ==
  IF urls = <<>> THEN <<>> ELSE urls[1] \o JoinNoSeparator(Tail(urls))

\* failed_urls.join("\n")
RECURSIVE JoinLines(_)
JoinLines(urls) ==
  IF urls = <<>> THEN <<>>
  ELSE IF Len(urls) = 1 THEN urls[1]
  ELSE urls[1] \o <<"\n">> \o JoinLines(Tail(urls))

\* the lines of a text: its pieces between "\n" tokens
RECURSIVE Lines(_)
Lines(text) ==
  IF \E k \in 1..Len(text) : text[k] = "\n"
  THEN <<TakeUntil(text, {"\n"})>>
         \o Lines(SubSeq(text, Len(TakeUntil(text, {"\n"})) + 2, Len(text)))
  ELSE <<text>>

\* failed_urls.txt in the output directory: absent, or left by an earlier run
NoFile == [exists |-> FALSE, content |-> <<>>]
FileWith(text) == [exists |-> TRUE, content |-> text]
StaleReport == FileWith(<<"stale">>)


\* ------------------------------------------------------------------ state
VARIABLES
  index_response,  \* what the index service answers; Consumed once decoded
  concurrency,     \* args.concurrency
  pc,              \* where main is
  result,          \* what main returned: Running, Ok, Err(msg) or Panicked
  printed,         \* the lines main and the lister have printed
  capture_urls,    \* the JobSet: the lister's Vec<String>
  spawned,         \* how many tasks main has spawned
  joined,          \* how many tasks main has awaited
  permits,         \* the semaphore's free permits
  task,            \* where each download task is
  status,          \* the HTTP exchange of each task's fetch
  outcome,         \* what download_html returned to each task
  failed_urls,     \* the Mutex<Vec<String>> of failed targets
  mutex,           \* who holds the failed_urls lock: 0 nobody, i task i, Main
  files,           \* the filenames download_html created in the output directory
  report,          \* failed_urls.txt in the output directory
  report_writes,   \* how often main has written failed_urls.txt
  progress         \* the k of the latest "Downloading k/total" line; 0: none yet

vars == <<index_response, concurrency, pc, result, printed, capture_urls,
          spawned, joined, permits, task, status, outcome, failed_urls,
          mutex, files, report, report_writes, progress>>

Running == [kind |-> "running", urls |-> <<>>, msg |-> ""]
Main == 0 - 1
Total == Len(capture_urls)
Tasks == 1..Total

\* the task states in which the task owns a semaphore permit (_permit lives)
Holding == {"started", "fetch", "persist", "succeeded", "failed", "lock", "push"}
\* the task states in which the task has ended
Ended == {"done", "panicked"}

\* what the archive service can do with a GET: no response at all (or a body
\* that breaks off), or a response with a status code
FetchResults == {"transport", "200", "404", "503"}
\* what File::create + write_all can do
PersistResults == {"ok", "create_failed", "write_failed"}

Init ==
  /\ index_response \in Responses
  /\ concurrency \in 0..MaxConcurrency
  /\ report \in {NoFile, StaleReport}
  /\ pc = "create_dir"
  /\ result = Running
  /\ printed = {}
  /\ capture_urls = <<>>
  /\ spawned = 0
  /\ joined = 0
  /\ permits = 0
  /\ task = <<>>
  /\ status = <<>>
  /\ outcome = <<>>
  /\ failed_urls = <<>>
  /\ mutex = 0
  /\ files = {}
  /\ report_writes = 0
  /\ progress = 0

\* ------------------------------------------------------------------- main
\* main returns r, or unwinds from the lister's row indexing: the process
\* ends. (A println! of main that cannot write stdout would end it as well;
\* such runs have no later state and are not followed.)
Return(r) == pc' = "done" /\ result' = r

\* lines 44-56: fs::create_dir_all(&output_dir)?, then the first println!
CreateDir ==
  /\ pc = "create_dir"
  /\ \/ /\ pc' = "build_client"
        /\ printed' = printed \cup {"Fetching archived URLs"}
        /\ UNCHANGED result
     \/ /\ Return(Err("Failed to create output directory"))
        /\ UNCHANGED printed
  /\ UNCHANGED <<index_response, concurrency, capture_urls, spawned, joined,
                 permits, task, status, outcome, failed_urls, mutex, files,
                 report, report_writes, progress>>

\* lines 58-61: Client::builder().timeout(..).build().into_diagnostic()?
BuildClient ==
  /\ pc = "build_client"
  /\ \/ pc' = "list" /\ UNCHANGED result
     \/ Return(Err("builder error"))
  /\ UNCHANGED <<index_response, concurrency, printed, capture_urls, spawned,
                 joined, permits, task, status, outcome, failed_urls, mutex,
                 files, report, report_writes, progress>>

\* lines 63-76: the listing, the empty check, and the shared state of the run
List ==
  /\ pc = "list"
  /\ index_response' = Consumed
  /\ LET listed == get_wayback_cdx_urls(index_response)
         early == index_response.kind = "json" /\ NoCaptures(index_response.data)
         said == IF early THEN {"No captures found in CDX API response."} ELSE {}
     IN IF listed.kind # "ok"
        THEN /\ Return(listed)
             /\ UNCHANGED <<printed, capture_urls, permits, task, status, outcome>>
        ELSE IF listed.urls = <<>>
        THEN /\ Return(Ok(<<>>))
             /\ printed' = printed \cup said \cup {"No archived URLs found."}
             /\ UNCHANGED <<capture_urls, permits, task, status, outcome>>
        ELSE /\ pc' = "spawn"
             /\ printed' = printed \cup said \cup {"Found archived URLs."}
             /\ capture_urls' = listed.urls
             /\ permits' = concurrency
             /\ task' = [i \in 1..Len(listed.urls) |-> "unspawned"]
             /\ status' = [i \in 1..Len(listed.urls) |-> "none"]
             /\ outcome' = [i \in 1..Len(listed.urls) |-> "none"]
             /\ UNCHANGED result
  /\ UNCHANGED <<concurrency, spawned, joined, failed_urls, mutex, files,
                 report, report_writes, progress>>

\* lines 78-102: tokio::spawn of the next task, in JobSet order
Spawn ==
  /\ pc = "spawn"
  /\ spawned' = spawned + 1
  /\ task' = [task EXCEPT ![spawned + 1] = "acquire"]
  /\ pc' = IF spawned + 1 = Total THEN "join" ELSE "spawn"
  /\ UNCHANGED <<index_response, concurrency, result, printed, capture_urls,
                 joined, permits, status, outcome, failed_urls, mutex, files,
                 report, report_writes, progress>>

\* (mutant) main goes on to the next handle without waiting for the task
AwaitTaskNoWait ==
  /\ pc = "join"
  /\ joined' = joined + 1
  /\ pc' = IF joined + 1 = Total THEN "report" ELSE "join"
  /\ UNCHANGED <<index_response, concurrency, result, printed, capture_urls,
                 spawned, permits, task, status, outcome, failed_urls, mutex,
                 files, report, report_writes, progress>>

\* lines 104-106: `let _ = task.await` returns once that task has ended,
\* whether it returned or panicked (the JoinError is dropped)
AwaitTask ==
  /\ pc = "join"
  /\ task[joined + 1] \in Ended
  /\ joined' = joined + 1
  /\ pc' = IF joined + 1 = Total THEN "report" ELSE "join"
  /\ UNCHANGED <<index_response, concurrency, result, printed, capture_urls,
                 spawned, permits, task, status, outcome, failed_urls, mutex,
                 files, report, report_writes, progress>>

\* what a failed fs::write can leave behind: the file as it was (it could
\* not be opened), or truncated and holding some proper prefix of the text
FailedWrite(old, text) ==
  {old} \cup {FileWith(SubSeq(text, 1, k)) : k \in 0..(Len(text) - 1)}

\* (mutant) the report is added to the end of the file that is there
ReportAppends ==
  /\ pc = "report"
  /\ mutex = 0
  /\ mutex' = Main
  /\ IF failed_urls = <<>>
     THEN /\ Return(Ok(<<>>))
          /\ printed' = printed \cup {"Download completed."}
          /\ UNCHANGED <<report, report_writes>>
     ELSE /\ report' = IF report.exists
                       THEN FileWith(report.content \o <<"\n">>
                                       \o JoinLines(failed_urls))
                       ELSE FileWith(JoinLines(failed_urls))
          /\ report_writes' = report_writes + 1
          /\ printed' = printed \cup {"Some URLs failed to download.",
                                      "Download completed."}
          /\ Return(Ok(<<>>))
  /\ UNCHANGED <<index_response, concurrency, capture_urls, spawned, joined,
                 permits, task, status, outcome, failed_urls, files, progress>>

\* (mutant) a run with failed downloads returns an error after its report
ReportThenFail ==
  /\ pc = "report"
  /\ mutex = 0
  /\ mutex' = Main
  /\ IF failed_urls = <<>>
     THEN /\ Return(Ok(<<>>))
          /\ printed' = printed \cup {"Download completed."}
          /\ UNCHANGED <<report, report_writes>>
     ELSE /\ report' = FileWith(JoinLines(failed_urls))
          /\ report_writes' = report_writes + 1
          /\ printed' = printed \cup {"Some URLs failed to download."}
          /\ Return(Err("some downloads failed"))
  /\ UNCHANGED <<index_response, concurrency, capture_urls, spawned, joined,
                 permits, task, status, outcome, failed_urls, files, progress>>

\* lines 108-120: lock the list, write the report if it is not empty, finish
Report ==
  /\ pc = "report"
  /\ mutex = 0
  /\ mutex' = Main
  /\ IF failed_urls = <<>>
     THEN /\ Return(Ok(<<>>))
          /\ printed' = printed \cup {"Download completed."}
          /\ UNCHANGED <<report, report_writes>>
     ELSE \/ /\ report' = FileWith(JoinLines(failed_urls))
             /\ report_writes' = report_writes + 1
             /\ printed' = printed \cup {"Some URLs failed to download.",
                                         "Download completed."}
             /\ Return(Ok(<<>>))
          \/ /\ report' \in FailedWrite(report, JoinLines(failed_urls))
             /\ Return(Err("failed to write failed_urls.txt"))
             /\ UNCHANGED <<printed, report_writes>>
  /\ UNCHANGED <<index_response, concurrency, capture_urls, spawned, joined,
                 permits, task, status, outcome, failed_urls, files, progress>>

\* ------------------------------------------------------ the download tasks
\* (mutant) a semaphore without permits lets every task through
AcquireUnlessZero(i) ==
  /\ task[i] = "acquire"
  /\ permits > 0 \/ concurrency = 0
  /\ permits' = IF concurrency = 0 THEN permits ELSE permits - 1
  /\ task' = [task EXCEPT ![i] = "started"]
  /\ UNCHANGED <<index_response, concurrency, pc, result, printed,
                 capture_urls, spawned, joined, status, outcome, failed_urls,
                 mutex, files, report, report_writes, progress>>

\* (mutant) acquire never waits for a free permit
AcquireNoWait(i) ==
  /\ task[i] = "acquire"
  /\ permits' = permits - 1
  /\ task' = [task EXCEPT ![i] = "started"]
  /\ UNCHANGED <<index_response, concurrency, pc, result, printed,
                 capture_urls, spawned, joined, status, outcome, failed_urls,
                 mutex, files, report, report_writes, progress>>

\* line 88: semaphore.acquire().await
Acquire(i) ==
  /\ task[i] = "acquire"
  /\ permits > 0
  /\ permits' = permits - 1
  /\ task' = [task EXCEPT ![i] = "started"]
  /\ UNCHANGED <<index_response, concurrency, pc, result, printed,
                 capture_urls, spawned, joined, status, outcome, failed_urls,
                 mutex, files, report, report_writes, progress>>

\* line 89: println!("Downloading {}/{}: {}", i + 1, total, url)
PrintStart(i) ==
  /\ task[i] = "started"
  /\ task' = [task EXCEPT ![i] = "fetch"]
  /\ progress' = i
  /\ UNCHANGED <<index_response, concurrency, pc, result, printed,
                 capture_urls, spawned, joined, permits, status, outcome,
                 failed_urls, mutex, files, report, report_writes>>

\* lines 174-187: send() and text(), the archive service answering r; only
\* a transport error is an Err, the status code of a response is never
\* looked at
FetchWith(i, r) ==
  /\ task[i] = "fetch"
  /\ status' = [status EXCEPT ![i] = r]
  /\ IF r = "transport"
     THEN /\ outcome' = [outcome EXCEPT ![i] = "err"]
          /\ task' = [task EXCEPT ![i] = "failed"]
     ELSE /\ task' = [task EXCEPT ![i] = "persist"]
          /\ UNCHANGED outcome
  /\ UNCHANGED <<index_response, concurrency, pc, result, printed,
                 capture_urls, spawned, joined, permits, failed_urls, mutex,
                 files, report, report_writes, progress>>

Fetch(i) == \E r \in FetchResults : FetchWith(i, r)

\* lines 189-211: derive the filename, File::create, write_all, the file
\* system answering r
PersistWith(i, r) ==
  /\ task[i] = "persist"
  /\ files' = IF r = "create_failed" THEN files
              ELSE files \cup {FileName(capture_urls[i])}
  /\ outcome' = [outcome EXCEPT ![i] = IF r = "ok" THEN "ok" ELSE "err"]
  /\ task' = [task EXCEPT ![i] = IF r = "ok" THEN "succeeded" ELSE "failed"]
  /\ UNCHANGED <<index_response, concurrency, pc, result, printed,
                 capture_urls, spawned, joined, permits, status, failed_urls,
                 mutex, report, report_writes, progress>>

Persist(i) == \E r \in PersistResults : PersistWith(i, r)

\* (mutant) the success path ends without giving the permit back
PrintOkKeepsPermit(i) ==
  /\ task[i] = "succeeded"
  /\ task' = [task EXCEPT ![i] = "done"]
  /\ UNCHANGED <<index_response, concurrency, pc, result, printed,
                 capture_urls, spawned, joined, permits, status, outcome,
                 failed_urls, mutex, files, report, report_writes, progress>>

\* lines 92-94 and 100: print the success; the task ends, _permit is dropped
PrintOk(i) ==
  /\ task[i] = "succeeded"
  /\ task' = [task EXCEPT ![i] = "done"]
  /\ permits' = permits + 1
  /\ UNCHANGED <<index_response, concurrency, pc, result, printed,
                 capture_urls, spawned, joined, status, outcome, failed_urls,
                 mutex, files, report, report_writes, progress>>

\* line 96: print the failure
PrintFail(i) ==
  /\ task[i] = "failed"
  /\ task' = [task EXCEPT ![i] = "lock"]
  /\ UNCHANGED <<index_response, concurrency, pc, result, printed,
                 capture_urls, spawned, joined, permits, status, outcome,
                 failed_urls, mutex, files, report, report_writes, progress>>

\* line 97: failed_urls.lock().await
Lock(i) ==
  /\ task[i] = "lock"
  /\ mutex = 0
  /\ mutex' = i
  /\ task' = [task EXCEPT ![i] = "push"]
  /\ UNCHANGED <<index_response, concurrency, pc, result, printed,
                 capture_urls, spawned, joined, permits, status, outcome,
                 failed_urls, files, report, report_writes, progress>>

\* (mutant) the target is put in front of the list
PushFront(i) ==
  /\ task[i] = "push"
  /\ failed_urls' = <<capture_urls[i]>> \o failed_urls
  /\ mutex' = 0
  /\ permits' = permits + 1
  /\ task' = [task EXCEPT ![i] = "done"]
  /\ UNCHANGED <<index_response, concurrency, pc, result, printed,
                 capture_urls, spawned, joined, status, outcome, files,
                 report, report_writes, progress>>

\* (mutant) the target is pushed twice
PushTwice(i) ==
  /\ task[i] = "push"
  /\ failed_urls' = failed_urls \o <<capture_urls[i], capture_urls[i]>>
  /\ mutex' = 0
  /\ permits' = permits + 1
  /\ task' = [task EXCEPT ![i] = "done"]
  /\ UNCHANGED <<index_response, concurrency, pc, result, printed,
                 capture_urls, spawned, joined, status, outcome, files,
                 report, report_writes, progress>>

\* lines 97-100: .push(url); the guard is dropped at the end of the
\* statement, then the task ends and _permit is dropped
Push(i) ==
  /\ task[i] = "push"
  /\ failed_urls' = Append(failed_urls, capture_urls[i])
  /\ mutex' = 0
  /\ permits' = permits + 1
  /\ task' = [task EXCEPT ![i] = "done"]
  /\ UNCHANGED <<index_response, concurrency, pc, result, printed,
                 capture_urls, spawned, joined, status, outcome, files,
                 report, report_writes, progress>>

\* (mutant) a panicking task keeps its permit
PanicKeepsPermit(i) ==
  /\ task[i] \in {"started", "succeeded", "failed"}
  /\ task' = [task EXCEPT ![i] = "panicked"]
  /\ UNCHANGED <<index_response, concurrency, pc, result, printed,
                 capture_urls, spawned, joined, permits, status, outcome,
                 failed_urls, mutex, files, report, report_writes, progress>>

\* A println! of the task (lines 89, 93, 96) panics when stdout cannot be
\* written. The task unwinds: _permit is dropped, the runtime keeps the
\* panic as a JoinError for the JoinHandle, and everything else goes on.
Panic(i) ==
  /\ task[i] \in {"started", "succeeded", "failed"}
  /\ task' = [task EXCEPT ![i] = "panicked"]
  /\ permits' = permits + 1
  /\ UNCHANGED <<index_response, concurrency, pc, result, printed,
                 capture_urls, spawned, joined, status, outcome, failed_urls,
                 mutex, files, report, report_writes, progress>>

Next ==
  \/ CreateDir
  \/ BuildClient
  \/ List
  \/ Spawn
  \/ AwaitTask
  \/ Report
  \/ \E i \in Tasks : Acquire(i)
  \/ \E i \in Tasks : PrintStart(i)
  \/ \E i \in Tasks : Fetch(i)
  \/ \E i \in Tasks : Persist(i)
  \/ \E i \in Tasks : PrintOk(i)
  \/ \E i \in Tasks : PrintFail(i)
  \/ \E i \in Tasks : Lock(i)
  \/ \E i \in Tasks : Push(i)
  \/ \E i \in Tasks : Panic(i)

Spec == Init /\ [][Next]_vars

\* The runtime runs every task that can run, and every call returns: a step
\* that is possible is eventually taken.
FairSpec == Spec /\ WF_vars(Next)

\* ---------------------------------------------- the five-target scenario
\* concurrency limit 2, a JobSet of 5 distinct targets; any fetch may meet a
\* transport error and any task may panic at a println!, nothing else goes
\* wrong
ScenarioResponse ==
  JsonRows(<<<<Str(TimestampName), Str(OriginalName)>>,
             <<Str(<<"1">>), Str(<<"a">>)>>,
             <<Str(<<"2">>), Str(<<"a">>)>>,
             <<Str(<<"3">>), Str(<<"a">>)>>,
             <<Str(<<"4">>), Str(<<"a">>)>>,
             <<Str(<<"5">>), Str(<<"a">>)>>>>)

InitScenario ==
  /\ index_response = ScenarioResponse
  /\ concurrency = 1 + 1
  /\ report = NoFile
  /\ pc = "create_dir"
  /\ result = Running
  /\ printed = {}
  /\ capture_urls = <<>>
  /\ spawned = 0
  /\ joined = 0
  /\ permits = 0
  /\ task = <<>>
  /\ status = <<>>
  /\ outcome = <<>>
  /\ failed_urls = <<>>
  /\ mutex = 0
  /\ files = {}
  /\ report_writes = 0
  /\ progress = 0

NextScenario ==
  \/ CreateDir
  \/ BuildClient
  \/ List
  \/ Spawn
  \/ AwaitTask
  \/ Report
  \/ \E i \in Tasks : Acquire(i)
  \/ \E i \in Tasks : PrintStart(i)
  \/ \E i \in Tasks : \E r \in {"transport", "200"} : FetchWith(i, r)
  \/ \E i \in Tasks : PersistWith(i, "ok")
  \/ \E i \in Tasks : PrintOk(i)
  \/ \E i \in Tasks : PrintFail(i)
  \/ \E i \in Tasks : Lock(i)
  \/ \E i \in Tasks : Push(i)
  \/ \E i \in Tasks : Panic(i)

SpecScenario == InitScenario /\ [][NextScenario]_vars

\* ======================================================== the properties
\* the tasks between slot acquisition and slot release
InFlight == {i \in Tasks : task[i] \in Holding}
\* the tasks whose download_html returned Ok / Err
Succeeded == {i \in Tasks : outcome[i] = "ok"}
Failed == {i \in Tasks : outcome[i] = "err"}
\* main has awaited every task
PastJoin == pc \in {"report", "done"} /\ Total > 0
\* main returned Ok after the downloads
Completed == pc = "done" /\ result.kind = "ok" /\ Total > 0
\* how often u occurs in the sequence s
Occurrences(s, u) == Cardinality({k \in 1..Len(s) : s[k] = u})
\* the elements of the sequence s
Range(s) == {s[k] : k \in 1..Len(s)}

\* C1: with a limit N, 1 <= N <= M, at most N tasks are ever between slot
\* acquisition and slot release, under every interleaving and also when
\* tasks panic.
C1_AtMostNInFlight ==
  (1 <= concurrency /\ concurrency <= Total)
    => Cardinality(InFlight) <= concurrency

\* C1 witness: limit 1, two targets: one task fetches while the other waits
\* for the only slot.
C1_Witness ==
  /\ concurrency = 1
  /\ Total = 2
  /\ \E i, j \in Tasks : task[i] = "fetch" /\ task[j] = "acquire"

\* C2: once the run has completed, the number of tasks that succeeded plus
\* the length of the FailureLog is M.
C2_CountsAddUp ==
  Completed => Cardinality(Succeeded) + Len(failed_urls) = Total

\* C3: once every task has been awaited, every target has exactly one
\* outcome: its download returned Ok, or it returned Err and stands in the
\* FailureLog; none is without an outcome, also when its task panicked.
C3_ExactlyOneOutcome ==
  PastJoin =>
    /\ \A i \in Tasks : outcome[i] \in {"ok", "err"}
    /\ Len(failed_urls) = Cardinality(Failed)

\* C4 as stated: every FailureLog entry is a target of the JobSet and no
\* entry occurs twice.
C4_NoDuplicates ==
  /\ Range(failed_urls) \subseteq Range(capture_urls)
  /\ \A u \in Range(failed_urls) : Occurrences(failed_urls, u) = 1

\* C4 amended: every FailureLog entry is a target of the JobSet and occurs
\* in the FailureLog at most as often as it occurs in the JobSet.
C4_NoMoreThanInJobSet ==
  /\ Range(failed_urls) \subseteq Range(capture_urls)
  /\ \A u \in Range(failed_urls) :
       Occurrences(failed_urls, u) <= Occurrences(capture_urls, u)

\* C4 witness: a JobSet holding the same target twice, both logged as failed.
C4_Witness ==
  /\ Total = 2
  /\ capture_urls[1] = capture_urls[2]
  /\ Len(failed_urls) = 2

\* C5 (five targets, limit 2): main does not pass the join while a task is
\* outstanding; once it has, every target was fetched whatever became of the
\* others (only a task that itself panicked at its first println! was not);
\* and when the first target's transport error is all that went wrong, the
\* other four were downloaded and the FailureLog is that one target.
C5_NoneCancelled ==
  PastJoin =>
    /\ \A i \in Tasks : task[i] \in Ended
    /\ \A i \in Tasks : status[i] # "none" \/ task[i] = "panicked"
    /\ ({i \in Tasks : status[i] = "transport"} = {1}
          /\ \A i \in Tasks : task[i] = "done")
         => /\ failed_urls = <<capture_urls[1]>>
            /\ \A i \in Tasks \ {1} :
                 outcome[i] = "ok" /\ FileName(capture_urls[i]) \in files

\* C5 witness: the five-target run has ended, only the first fetch failed.
C5_Witness ==
  /\ pc = "done"
  /\ Total = 5
  /\ concurrency = 2
  /\ {i \in Tasks : status[i] = "transport"} = {1}
  /\ \A i \in Tasks : task[i] = "done"
  /\ report = FileWith(capture_urls[1])

\* C6: after a run that returned Ok: an empty FailureLog means the run wrote
\* no report and failed_urls.txt is as it was before; otherwise
\* failed_urls.txt holds exactly the FailureLog entries, one per line, in
\* FailureLog order.
C6_ReportMatchesLog ==
  Completed =>
    IF failed_urls = <<>>
    THEN report_writes = 0 /\ report \in {NoFile, StaleReport}
    ELSE /\ report.exists
         /\ Lines(report.content) = failed_urls
         /\ Len(Lines(report.content)) = Len(failed_urls)

\* C6 witness: a completed run whose report holds two lines.
C6_Witness ==
  Completed /\ Len(failed_urls) = 2 /\ Len(Lines(report.content)) = 2

\* C7: a target whose fetch was answered with a non-success status is a
\* failure: it is in the FailureLog, it is no success, no file is persisted.
NonSuccess == {"404", "503"}
C7_NonSuccessIsFailure ==
  \A i \in Tasks :
    (status[i] \in NonSuccess /\ task[i] = "done")
      => /\ outcome[i] = "err"
         /\ capture_urls[i] \in Range(failed_urls)
         /\ FileName(capture_urls[i]) \notin files

\* the index answered with rows, none of them a data row
ZeroDataRows(resp) == resp.kind = "json" /\ Len(resp.data) \in {0, 1}
\* the index answered with a header row in which a column name is missing
HeaderLacksColumn(resp) ==
  /\ resp.kind = "json"
  /\ Len(resp.data) >= 1
  /\ \/ Str(TimestampName) \notin Range(resp.data[1])
     \/ Str(OriginalName) \notin Range(resp.data[1])
\* nothing of a download has happened
NothingDispatched ==
  spawned = 0 /\ task = <<>> /\ status = <<>> /\ files = {} /\ failed_urls = <<>>

\* C8: a response without data rows (a header row alone, or an empty array)
\* makes the listing return the empty JobSet: the run says that no archived
\* URLs were found, returns Ok, dispatches nothing and writes no report.
C8_EmptyListing ==
  [][(pc = "list" /\ ZeroDataRows(index_response))
       => /\ pc' = "done"
          /\ result' = Ok(<<>>)
          /\ "No archived URLs found." \in printed'
          /\ capture_urls' = <<>>
          /\ NothingDispatched'
          /\ report' = report /\ report_writes' = 0]_vars

\* C8 witness: the run has ended after finding no archived URLs.
C8_Witness ==
  /\ pc = "done"
  /\ result = Ok(<<>>)
  /\ "No archived URLs found." \in printed
  /\ "No captures found in CDX API response." \in printed

\* C9 as stated: a failed request, a malformed body or a header row without
\* the timestamp or the original column makes the listing an error; the run
\* returns it and nothing is dispatched.
C9_ListingFailed ==
  [][(pc = "list" /\ (\/ index_response.kind \in {"net_fail", "bad_json"}
                       \/ HeaderLacksColumn(index_response)))
       => /\ pc' = "done"
          /\ result'.kind = "err"
          /\ NothingDispatched']_vars

\* C9 amended: a failed request, a malformed body, or a header row without
\* the timestamp or the original column that is followed by at least one
\* data row, makes the listing an error; the run returns it and nothing is
\* dispatched. (A header row alone is the empty JobSet whatever it names.)
C9_ListingFailedWithRows ==
  [][(pc = "list" /\ (\/ index_response.kind \in {"net_fail", "bad_json"}
                       \/ /\ HeaderLacksColumn(index_response)
                          /\ Len(index_response.data) >= 2))
       => /\ pc' = "done"
          /\ result'.kind = "err"
          /\ result'.msg \in {"Failed to fetch CDX API",
                              "Failed to parse CDX JSON",
                              "timestamp field not found",
                              "original field not found"}
          /\ NothingDispatched']_vars

\* C9 witness: the run has ended on a header row that lacks a column.
C9_Witness ==
  /\ pc = "done"
  /\ result = Err("original field not found")
  /\ NothingDispatched

\* C10 as stated: when downloads have failed, the run does not end in an
\* error (setup and listing have succeeded, or nothing had been downloaded).
C10_NeverFailsOnDownloads ==
  (pc = "done" /\ Failed # {}) => result.kind # "err"

\* C10 amended: main returns an error only for a setup error (output
\* directory, HTTP client, index listing) or for a failure report that could
\* not be written, and the lister panics only before anything is dispatched;
\* once downloads were dispatched, the only error is the failed write of the
\* report, and a run whose report is written returns Ok.
ListingErrors ==
  {"Failed to fetch CDX API", "Failed to parse CDX JSON",
   "timestamp field not found", "original field not found",
   "Invalid timestamp", "Invalid URL"}
SetupErrors ==
  {"Failed to create output directory", "builder error"} \cup ListingErrors
C10_ErrorsOfTheRun ==
  (pc = "done" /\ result.kind \in {"err", "panic"}) =>
    IF Total = 0
    THEN /\ result.kind = "err" => result.msg \in SetupErrors
         /\ NothingDispatched
    ELSE /\ result = Err("failed to write failed_urls.txt")
         /\ failed_urls # <<>>
         /\ report_writes = 0

\* C10 witness: downloads failed, the report was written, the run returned Ok.
C10_Witness ==
  Completed /\ Failed # {} /\ report_writes = 1 /\ report.exists

\* C11: with a limit of at least 1, when whatever can run does run and every
\* call returns, the run completes; and it has completed only when every
\* dispatched task has ended, by returning or by panicking: no exit on the
\* first failure.
C11_CompletesWhenAllEnded ==
  /\ [](pc = "done" => \A i \in Tasks : task[i] \in Ended)
  /\ <>(concurrency = 0 \/ pc = "done")

\* C11 witness: limit 1, two targets, one download failed, the run is done.
C11_Witness ==
  /\ pc = "done"
  /\ concurrency = 1
  /\ Total = 2
  /\ Cardinality(Failed) = 1
  /\ Cardinality(Succeeded) = 1

\* C12: from the creation of the semaphore on, the permits held by tasks and
\* the free permits add up to N, and all N are free once every task has
\* ended, however it ended.
C12_PermitsConserved ==
  Total > 0 =>
    /\ Cardinality(InFlight) + permits = concurrency
    /\ (\A i \in Tasks : task[i] \in Ended) => permits = concurrency

\* C12 witness: both tasks have ended, one of them by a panic, and both
\* permits are free again.
C12_Witness ==
  /\ Total = 2
  /\ concurrency = 2
  /\ permits = 2
  /\ \E i, j \in Tasks : task[i] = "panicked" /\ task[j] = "done"

\* C13: at most one task is inside the append at any time, and once every
\* task has been awaited the FailureLog has one entry for each task whose
\* fetch or persist failed.
C13_EveryFailureLoggedOnce ==
  /\ Cardinality({i \in Tasks : task[i] = "push"}) <= 1
  /\ \A i \in Tasks : task[i] = "push" => mutex = i
  /\ PastJoin =>
       \A u \in Range(capture_urls) :
         Occurrences(failed_urls, u)
           = Cardinality({i \in Failed : capture_urls[i] = u})

\* C14: each "Downloading k/total" line carries a larger k than the one
\* printed before it.
C14_ProgressIncreases ==
  [][progress' # progress => progress' > progress]_vars

\* C15: a step only appends to the FailureLog; main holds the list for the
\* report only when every task has ended; the report is written at most
\* once.
C15_LogGrowsReportOnce ==
  /\ [][/\ Len(failed_urls') >= Len(failed_urls)
        /\ SubSeq(failed_urls', 1, Len(failed_urls)) = failed_urls]_vars
  /\ [](mutex = Main => \A i \in Tasks : task[i] \in Ended)
  /\ [](report_writes <= 1)

\* C15 witness: two entries were appended one after the other and the
\* report was written.
C15_Witness ==
  /\ pc = "done"
  /\ mutex = Main
  /\ Len(failed_urls) = 2
  /\ failed_urls[1] # failed_urls[2]
  /\ report_writes = 1

\* ------------------------------------------------- the lister on its own
\* The answers given to the lister when it is checked on its own: as
\* Responses, with rows of up to ListCols cells.
ListingInputs ==
  {NetFail, BadJson, JsonRows(<<>>)}
    \cup {JsonRows(<<h>> \o d) :
            h \in SeqsUpTo(HeaderCells, ListCols),
            d \in SeqsUpTo(SeqsUpTo(DataCells, ListCols), MaxRows)}

InitListing ==
  /\ index_response \in ListingInputs
  /\ concurrency = 1
  /\ pc = "list"
  /\ result = Running
  /\ printed = {}
  /\ capture_urls = <<>>
  /\ spawned = 0
  /\ joined = 0
  /\ permits = 0
  /\ task = <<>>
  /\ status = <<>>
  /\ outcome = <<>>
  /\ failed_urls = <<>>
  /\ mutex = 0
  /\ files = {}
  /\ report = NoFile
  /\ report_writes = 0
  /\ progress = 0

\* line 63: the call of get_wayback_cdx_urls; the response is kept to
\* compare the result with
CallLister ==
  /\ pc = "list"
  /\ result' = get_wayback_cdx_urls(index_response)
  /\ pc' = "listed"
  /\ UNCHANGED <<index_response, concurrency, printed, capture_urls, spawned,
                 joined, permits, task, status, outcome, failed_urls, mutex,
                 files, report, report_writes, progress>>

NextListing == CallLister

SpecListing == InitListing /\ [][NextListing]_vars

\* every row of the response has as many cells as the header
Rectangular(data) ==
  /\ Len(data) >= 1
  /\ \A k \in 1..Len(data) : Len(data[k]) = Len(data[1])

\* the orders of n columns: the permutations of 1..n
ColumnOrders(n) ==
  {p \in [1..n -> 1..n] : \A a, b \in 1..n : a # b => p[a] # p[b]}

\* the response with the columns of every row, header included, moved by p
PermuteColumns(resp, p) ==
  JsonRows([k \in 1..Len(resp.data) |->
              [c \in 1..Len(resp.data[k]) |-> resp.data[k][p[c]]]])

\* the header names `timestamp` and `original` at most once each
NamedOnce(headers) ==
  \A name \in {TimestampName, OriginalName} :
    Cardinality({k \in 1..Len(headers) : headers[k] = Str(name)}) <= 1

\* the header names both columns
HasBothColumns(headers) ==
  /\ Position(headers, TimestampName) # 0
  /\ Position(headers, OriginalName) # 0

\* C16 as stated: for any response whose rows are as long as its header,
\* moving the columns of the header and of every row by the same
\* permutation leaves the lister's result unchanged.
C16_AnyPermutation ==
  (pc = "listed" /\ index_response.kind = "json"
     /\ Rectangular(index_response.data)) =>
    \A p \in ColumnOrders(Len(index_response.data[1])) :
      get_wayback_cdx_urls(PermuteColumns(index_response, p)) = result

\* C16, amended: the same, for responses whose header names `timestamp`
\* and `original` at most once each.
C16_PermutationNamedOnce ==
  (pc = "listed" /\ index_response.kind = "json"
     /\ Rectangular(index_response.data)
     /\ NamedOnce(index_response.data[1])) =>
    \A p \in ColumnOrders(Len(index_response.data[1])) :
      get_wayback_cdx_urls(PermuteColumns(index_response, p)) = result

\* C16 witness: three columns, `original` first and `timestamp` last, two
\* data rows, two targets returned.
C16_Witness ==
  /\ pc = "listed"
  /\ index_response.kind = "json"
  /\ Rectangular(index_response.data)
  /\ Len(index_response.data) = 3
  /\ Position(index_response.data[1], OriginalName) = 1
  /\ Position(index_response.data[1], TimestampName) = 3
  /\ result.kind = "ok"
  /\ Len(result.urls) = 2
  /\ result.urls[1] # result.urls[2]

\* C17: for a response whose header names both columns the lister returns
\* an error or one target per data row, in row order, each the archive base
\* followed by the row's timestamp, "/" and the row's original URL; it
\* never ends abnormally.
C17_ErrorOrOnePerRow ==
  (pc = "listed" /\ index_response.kind = "json"
     /\ Len(index_response.data) >= 1
     /\ HasBothColumns(index_response.data[1])) =>
    LET data == index_response.data
        timestamp_idx == Position(data[1], TimestampName)
        original_url_idx == Position(data[1], OriginalName)
    IN /\ result.kind \in {"ok", "err"}
       /\ result.kind = "ok" =>
            /\ Len(result.urls) = Len(data) - 1
            /\ \A k \in 1..Len(result.urls) :
                 result.urls[k] = CaptureUrl(data[k + 1][timestamp_idx].s,
                                             data[k + 1][original_url_idx].s)

\* C18: with --concurrency 0 and a non-empty JobSet the tasks are spawned
\* and never get past the acquire: nothing is fetched, nothing is printed by
\* a task, main never leaves the join loop, no report is written and
\* "Download completed." is never printed.
C18_ZeroLimitBlocks ==
  (concurrency = 0 /\ Total > 0) =>
    /\ pc \in {"spawn", "join"}
    /\ joined = 0
    /\ \A i \in Tasks :
         /\ task[i] \in {"unspawned", "acquire"}
         /\ status[i] = "none"
         /\ outcome[i] = "none"
    /\ progress = 0
    /\ files = {}
    /\ report_writes = 0
    /\ "Download completed." \notin printed

\* C18 witness: limit 0, both tasks were spawned and wait at the acquire,
\* main waits for the first of them.
C18_Witness ==
  /\ concurrency = 0
  /\ Total = 2
  /\ spawned = 2
  /\ pc = "join"
  /\ \A i \in Tasks : task[i] = "acquire"

\* ------------------------------------- two targets that differ in a query
\* The index lists the same timestamp twice, for a URL and for the same URL
\* with a query string; both downloads may run at the same time.
QueryResponse ==
  JsonRows(<<<<Str(TimestampName), Str(OriginalName)>>,
             <<Str(<<"1">>), Str(<<"a">>)>>,
             <<Str(<<"1">>), Str(<<"a", "?", "q">>)>>>>)

InitQuery ==
  /\ index_response = QueryResponse
  /\ concurrency = 1 + 1
  /\ report = NoFile
  /\ pc = "create_dir"
  /\ result = Running
  /\ printed = {}
  /\ capture_urls = <<>>
  /\ spawned = 0
  /\ joined = 0
  /\ permits = 0
  /\ task = <<>>
  /\ status = <<>>
  /\ outcome = <<>>
  /\ failed_urls = <<>>
  /\ mutex = 0
  /\ files = {}
  /\ report_writes = 0
  /\ progress = 0

SpecQuery == InitQuery /\ [][NextScenario]_vars

\* C19: two distinct targets of the JobSet are persisted under distinct
\* filenames, and once every task has been awaited there are as many files
\* as downloads that succeeded.
C19_DistinctFiles ==
  /\ \A i, j \in Tasks :
       capture_urls[i] # capture_urls[j]
         => FileName(capture_urls[i]) # FileName(capture_urls[j])
  /\ PastJoin => Cardinality(files) = Cardinality(Succeeded)

\* C20 as stated: after a run that returned Ok, failed_urls.txt exists
\* exactly if the FailureLog of the run is not empty, and then holds it.
C20_ReportIffLogNonEmpty ==
  (pc = "done" /\ result.kind = "ok") =>
    /\ report.exists <=> failed_urls # <<>>
    /\ report.exists => Lines(report.content) = failed_urls

\* C20, amended: the step that ends a run with Ok replaces failed_urls.txt
\* by the FailureLog of the run when that is not empty, and leaves the file
\* as it was, there or not, when it is empty.
C20_ReportReplacedOrKept ==
  [][(pc = "report" /\ pc' = "done" /\ result'.kind = "ok") =>
       IF failed_urls = <<>>
       THEN report' = report
       ELSE report'.exists /\ Lines(report'.content) = failed_urls]_vars

\* C20 witness: the directory held a failed_urls.txt of an earlier run, both
\* downloads of this run succeeded, and the file is still there.
C20_Witness ==
  /\ pc = "done"
  /\ result.kind = "ok"
  /\ Cardinality(Succeeded) = 2
  /\ failed_urls = <<>>
  /\ report = StaleReport

====
